---- MODULE Spec2Model ----
(***************************************************************************)
(* Model of the ctypes binding voikko/_binding.py (class Voikko) over the  *)
(* native library libvoikko_ffi.  The Python side is translated from the   *)
(* source; the native side is the set of results the function table can    *)
(* hand back across the boundary.                                          *)
(***************************************************************************)
EXTENDS Integers, Sequences, FiniteSets, TLC

(* ------------------------------ bounds --------------------------------- *)
NumInst == 2      \* Voikko objects in the program
MaxBufs == 2      \* native result buffers that can be outstanding at once
MaxItems == 2     \* entries of a native NULL-terminated string array
MaxCount == 1     \* entries of a native counted array
MaxWordLen == 1   \* characters of an input word
NumThreads == 2   \* threads that call methods of one shared object

(* ---------------------------- vocabulary ------------------------------- *)
Inst == 1..NumInst
NoAttr == -1      \* the object has no _handle attribute (constructor raised)
None == 0         \* self._handle is None (a NULL c_void_p reads back as None)
NoH == -2         \* native function that takes no handle argument
NullStr == "NULL" \* a NULL char pointer
Garbage == <<"?">>  \* content of memory that was released

Chars == {"a", "ae"}   \* "ae" stands for U+00E4, two bytes in UTF-8
Words == UNION {[1..n -> Chars] : n \in 0..MaxWordLen}
Strs == {"a", "b", ""} \* C strings the native side puts into string arrays
StrArrays == UNION {[1..n -> Strs] : n \in 0..MaxItems}

QueryOps == {"spell", "suggest", "analyze", "hyphenate",
             "get_hyphenation_pattern", "grammar_errors", "tokens",
             "sentences"}
BoolSetters == {"set_ignore_dot", "set_ignore_numbers", "set_ignore_uppercase",
                "set_no_ugly_hyphenation", "set_accept_first_uppercase",
                "set_accept_all_uppercase", "set_ocr_suggestions",
                "set_ignore_nonwords", "set_accept_extra_hyphens",
                "set_accept_missing_hyphens", "set_accept_titles_in_gc",
                "set_accept_unfinished_paragraphs_in_gc",
                "set_hyphenate_unknown_words",
                "set_accept_bulleted_lists_in_gc"}
IntSetters == {"set_min_hyphenated_word_length", "set_max_suggestions",
               "set_speller_cache_size"}
SetterOps == BoolSetters \cup IntSetters
CloseOps == {"terminate", "__exit__", "__del__"}
SetterValues == 0..1

VARIABLES
  phase,     \* per object: "fresh" (not constructed), "failed", "open"
  handle,    \* per object: self._handle (NoAttr, None, or a native handle)
  sessions,  \* native sessions that exist (handles not yet freed)
  frees,     \* per native handle: number of voikko_free calls made on it
  nextH,     \* next native handle value voikko_new hands out
  heap,      \* native result buffers: [st, data]
  calls,     \* native calls and buffer reads of the last operation, in order
  outcome,   \* what the last operation gave to its caller
  thr,       \* per thread: where it is inside a method of the shared object
  serial     \* the callers hold an external lock around every method call

vars == <<phase, handle, sessions, frees, nextH, heap, calls, outcome,
          thr, serial>>

(* ------------------------------ helpers -------------------------------- *)
\* one native call, or one read of a native buffer by the binding
\* (s: the string that crosses the boundary with the call, if the model
\* needs it later)
EvS(fn, h, buf, n, s) == [fn |-> fn, h |-> h, buf |-> buf, n |-> n, s |-> s]
Ev(fn, h, buf, n) == EvS(fn, h, buf, n, "")
\* a native call that returns the NULL-terminated array buf holding items
EvItems(fn, h, buf, items) ==
  [fn |-> fn, h |-> h, buf |-> buf, n |-> Len(items), s |-> "",
   items |-> items]

NoOutcome ==
  [inst |-> 0, op |-> "none", arg |-> <<>>, exc |-> "none", kind |-> "none",
   data |-> <<>>, view |-> 0]

Live == {b \in 1..MaxBufs : heap[b].st = "live"}
HasFreeBuf == \E b \in 1..MaxBufs : heap[b].st = "free"
\* the buffer the native allocator hands out next
NewBuf == CHOOSE b \in 1..MaxBufs :
            heap[b].st = "free" /\ \A c \in 1..(b - 1) : heap[c].st # "free"

\* _enc: str.encode("utf-8")
Utf8(c) == IF c = "a" THEN <<97>> ELSE <<195, 164>>
RECURSIVE Enc(_)
Enc(s) == IF s = <<>> THEN <<>> ELSE Utf8(Head(s)) \o Enc(Tail(s))

\* bytes.decode("utf-8") of a native NUL-terminated string
RECURSIVE Dec(_)
Dec(b) ==
  IF b = <<>> THEN <<>>
  ELSE IF Head(b) = 195 /\ Len(b) >= 2 THEN <<"ae">> \o Dec(Tail(Tail(b)))
  ELSE IF Head(b) = 97 THEN <<"a">> \o Dec(Tail(b))
  ELSE IF Head(b) = 45 THEN <<"-">> \o Dec(Tail(b))
  ELSE IF Head(b) = 61 THEN <<"=">> \o Dec(Tail(b))
  ELSE <<" ">> \o Dec(Tail(b))

\* truth value of a c_char_p entry: NULL and the empty string are both falsy
Truthy(s) == s # NullStr /\ s # ""

\* _read_null_terminated: entries up to the first falsy one
RECURSIVE ReadEntries(_)
ReadEntries(items) ==
  IF items = <<>> \/ ~Truthy(Head(items)) THEN <<>>
  ELSE <<Head(items)>> \o ReadEntries(Tail(items))

read_null_terminated(ptr) == IF ptr.null THEN <<>> ELSE ReadEntries(ptr.items)

\* what the caller sees when it looks at a value it was given
Observed(o) == IF o.view = 0 THEN o.data ELSE heap[o.view].data

\* (variant: the check is left out)
check_handle_absent(i) == "none"

\* Voikko._check_handle: the exception it raises, "none" when it passes
check_handle(i) ==
  IF handle[i] = NoAttr THEN "AttributeError"
  ELSE IF handle[i] = None THEN "RuntimeError"
  ELSE "none"

\* an operation returns normally
Return(i, op, arg, cs, kind, data, view) ==
  /\ calls' = cs
  /\ outcome' = [inst |-> i, op |-> op, arg |-> arg, exc |-> "none",
                 kind |-> kind, data |-> data, view |-> view]
  /\ UNCHANGED <<thr, serial>>

\* an operation raises
Raise(i, op, arg, cs, exc, msg) ==
  /\ calls' = cs
  /\ outcome' = [inst |-> i, op |-> op, arg |-> arg, exc |-> exc,
                 kind |-> "exception", data |-> msg, view |-> 0]
  /\ UNCHANGED <<thr, serial>>

Threads == 1..NumThreads
Idle == [pc |-> "idle", word |-> <<>>]

\* no object constructed yet, no thread inside a method
Fresh ==
  /\ phase = [i \in Inst |-> "fresh"]
  /\ handle = [i \in Inst |-> NoAttr]
  /\ sessions = {}
  /\ frees = [h \in 1..NumInst |-> 0]
  /\ nextH = 1
  /\ heap = [b \in 1..MaxBufs |-> [st |-> "free", data |-> Garbage]]
  /\ calls = <<>>
  /\ outcome = NoOutcome
  /\ thr = [t \in Threads |-> Idle]

Init == Fresh /\ serial = TRUE

(* ---------------------------- constructor ------------------------------ *)
\* File system seen by __init__: flat / v5 say whether mor.vfst is a file
\* in dict_path / dict_path/5/mor-standard; acFlat / acV5 are the size of
\* autocorr.vfst in each of them (-1: no such file).
ErrMsgs == {NullStr, "corrupt"}
AcSizes == {-1, 0, 1}

\* bytes of autocorr.vfst passed to voikko_new (-1: a null pointer, length 0)
AcPassed(size) == IF size > 0 THEN size ELSE -1

\* the mor.vfst whose bytes are read, and the directory ("path") in which
\* autocorr.vfst is then looked up
FlatMor == "mor.vfst"
V5Mor == "5/mor-standard/mor.vfst"
MorPath(flat) == IF flat THEN FlatMor ELSE V5Mor
AcDir(flat) == IF flat THEN "." ELSE "5/mor-standard"

\* what __init__ finds on disk
FsArg(flat, v5, acFlat, acV5) ==
  [flat |-> flat, v5 |-> v5, acFlat |-> acFlat, acV5 |-> acV5]

\* the call voikko_new(mor_buf, len, ac_buf, len, &error_msg): h is the
\* handle it returns, buf the error message it sets, mor the file the
\* morphology bytes come from, acdir / n the directory and the number of
\* the autocorrection bytes ("" / -1: a null pointer with length 0)
EvNew(h, buf, mor, acdir, n, msg) ==
  [fn |-> "voikko_new", h |-> h, buf |-> buf, n |-> n, s |-> msg,
   mor |-> mor, acdir |-> IF n = -1 THEN "" ELSE acdir]

\* __init__: mor.vfst is in neither layout
InitNotFound(i, flat, v5) ==
  /\ phase[i] = "fresh"
  /\ ~flat /\ ~v5
  /\ phase' = [phase EXCEPT ![i] = "failed"]
  /\ Raise(i, "__init__", FsArg(flat, v5, -1, -1), <<>>, "FileNotFoundError",
           <<"mor.vfst not found">>)
  /\ UNCHANGED <<handle, sessions, frees, nextH, heap>>

\* (variant: the error message is not released)
InitFail_no_free_str(i, flat, v5, acFlat, acV5, msg) ==
  /\ phase[i] = "fresh"
  /\ flat \/ v5
  /\ HasFreeBuf
  /\ LET ac == IF flat THEN acFlat ELSE acV5
         b == IF msg = NullStr THEN 0 ELSE NewBuf
         text == IF Truthy(msg) THEN msg ELSE "unknown error"
     IN /\ phase' = [phase EXCEPT ![i] = "failed"]
        /\ Raise(i, "__init__", FsArg(flat, v5, acFlat, acV5),
                 <<EvNew(None, b, MorPath(flat), AcDir(flat), AcPassed(ac),
                         msg)>>
                 \o (IF b = 0 THEN <<>> ELSE <<Ev("read", NoH, b, 0)>>),
                 "RuntimeError", <<"Failed to initialize Voikko: ", text>>)
        /\ heap' = IF b = 0 THEN heap
                   ELSE [heap EXCEPT ![b] = [st |-> "live", data |-> <<msg>>]]
  /\ UNCHANGED <<handle, sessions, frees, nextH>>

\* __init__: voikko_new returns a null handle and msg in *error_msg
InitFail(i, flat, v5, acFlat, acV5, msg) ==
  /\ phase[i] = "fresh"
  /\ flat \/ v5
  /\ HasFreeBuf
  /\ LET ac == IF flat THEN acFlat ELSE acV5
         b == IF msg = NullStr THEN 0 ELSE NewBuf
         text == IF Truthy(msg) THEN msg ELSE "unknown error"
     IN /\ phase' = [phase EXCEPT ![i] = "failed"]
        /\ Raise(i, "__init__", FsArg(flat, v5, acFlat, acV5),
                 <<EvNew(None, b, MorPath(flat), AcDir(flat), AcPassed(ac),
                         msg)>>
                 \o (IF b = 0 THEN <<>> ELSE <<Ev("read", NoH, b, 0)>>)
                 \o <<Ev("voikko_free_str", NoH, b, 0)>>,
                 "RuntimeError", <<"Failed to initialize Voikko: ", text>>)
  /\ UNCHANGED <<handle, sessions, frees, nextH, heap>>

\* __init__: voikko_new returns a handle
InitOk(i, flat, v5, acFlat, acV5) ==
  /\ phase[i] = "fresh"
  /\ flat \/ v5
  /\ LET ac == IF flat THEN acFlat ELSE acV5
     IN /\ phase' = [phase EXCEPT ![i] = "open"]
        /\ handle' = [handle EXCEPT ![i] = nextH]
        /\ sessions' = sessions \cup {nextH}
        /\ nextH' = nextH + 1
        /\ Return(i, "__init__", FsArg(flat, v5, acFlat, acV5),
                  <<EvNew(nextH, 0, MorPath(flat), AcDir(flat), AcPassed(ac),
                          "")>>, "none", <<>>, 0)
  /\ UNCHANGED <<frees, heap>>

(* ------------------------------- close --------------------------------- *)
\* (variant: the handle is not cleared after the free)
terminate_keeps_handle(i, op) ==
  IF handle[i] # NoAttr /\ handle[i] # None
  THEN /\ frees' = [frees EXCEPT ![handle[i]] = @ + 1]
       /\ sessions' = sessions \ {handle[i]}
       /\ Return(i, op, <<>>, <<Ev("voikko_free", handle[i], 0, 0)>>,
                 "none", <<>>, 0)
       /\ UNCHANGED <<phase, handle, nextH, heap>>
  ELSE /\ Return(i, op, <<>>, <<>>, "none", <<>>, 0)
       /\ UNCHANGED <<phase, handle, sessions, frees, nextH, heap>>

\* (variant: the handle is kept on the class, shared by all objects)
terminate_shared_handle(i, op) ==
  IF handle[i] # NoAttr /\ handle[i] # None
  THEN /\ frees' = [frees EXCEPT ![handle[i]] = @ + 1]
       /\ sessions' = sessions \ {handle[i]}
       /\ handle' = [j \in Inst |-> IF handle[j] = NoAttr THEN NoAttr ELSE None]
       /\ Return(i, op, <<>>, <<Ev("voikko_free", handle[i], 0, 0)>>,
                 "none", <<>>, 0)
       /\ UNCHANGED <<phase, nextH, heap>>
  ELSE /\ Return(i, op, <<>>, <<>>, "none", <<>>, 0)
       /\ UNCHANGED <<phase, handle, sessions, frees, nextH, heap>>

\* terminate(): the body shared by terminate, __exit__ and __del__
terminate(i, op) ==
  IF handle[i] # NoAttr /\ handle[i] # None
  THEN /\ frees' = [frees EXCEPT ![handle[i]] = @ + 1]
       /\ sessions' = sessions \ {handle[i]}
       /\ handle' = [handle EXCEPT ![i] = None]
       /\ Return(i, op, <<>>, <<Ev("voikko_free", handle[i], 0, 0)>>,
                 "none", <<>>, 0)
       /\ UNCHANGED <<phase, nextH, heap>>
  ELSE /\ Return(i, op, <<>>, <<>>, "none", <<>>, 0)
       /\ UNCHANGED <<phase, handle, sessions, frees, nextH, heap>>

Terminate(i) == phase[i] = "open" /\ terminate(i, "terminate")
Exit(i) == phase[i] = "open" /\ terminate(i, "__exit__")
\* __del__ also runs on an object whose constructor raised
Del(i) == phase[i] \in {"open", "failed"} /\ terminate(i, "__del__")

(* ------------------------- native result sets -------------------------- *)
NullPtr == [null |-> TRUE, items |-> <<>>]
Ptr(items) == [null |-> FALSE, items |-> items]
StrPtrs == {NullPtr} \cup {Ptr(a) : a \in StrArrays}

TerminatedMsg == <<"Voikko instance has been terminated">>

\* one analysis: the (key, value) pairs of its NULL-terminated keys/values
Analyses == {<< <<"CLASS", "a">>, <<"BASEFORM", "b">> >>,
             << <<"CLASS", "a">>, <<"CLASS", "b">> >>}
AnalysisArrays == UNION {[1..n -> Analyses] : n \in 0..MaxCount}

GrammarItems ==
  {[error_code |-> 1, start_pos |-> 0, error_len |-> 1,
    short_description |-> NullStr, suggestions |-> NullPtr],
   [error_code |-> 2, start_pos |-> 1, error_len |-> 1,
    short_description |-> "d", suggestions |-> Ptr(<<"a">>)]}
TokenItems == {[token_type |-> 1, text |-> "a", position |-> 0],
               [token_type |-> 9, text |-> NullStr, position |-> 1]}
SentenceItems == {[sentence_type |-> 2, sentence_len |-> 2],
                  [sentence_type |-> 7, sentence_len |-> 0]}
TokenArrays == UNION {[1..n -> TokenItems] : n \in 0..MaxCount}
SentenceArrays == UNION {[1..n -> SentenceItems] : n \in 0..MaxCount}

GrammarArrays == UNION {[1..n -> GrammarItems] : n \in 0..MaxCount}

\* voikko_insert_hyphens: NULL or some UTF-8 text
NativeTexts == {Enc(w) : w \in Words \ {<<>>}} \cup {<<97, 45, 97>>}
TextPtrs == {NullPtr} \cup {Ptr(t) : t \in NativeTexts}

\* voikko_hyphenate: NULL or one marker (' ', '-', '=') per character of the
\* word the native side decoded from the UTF-8 bytes it was given
NativeCharCount(bytes) ==
  Cardinality({k \in 1..Len(bytes) : bytes[k] < 128 \/ bytes[k] >= 192})
NativePatterns(bytes) ==
  {NullPtr} \cup {Ptr(p) : p \in [1..NativeCharCount(bytes) -> {32, 45, 61}]}

\* voikko_attribute_values: a function of the attribute name alone
AttrNames == {"CLASS", "BOGUS"}
NativeAttributeValues(name) ==
  IF name = "CLASS" THEN Ptr(<<"a", "b">>) ELSE NullPtr

_TOKEN_TYPES(t) ==
  IF t = 0 THEN "NONE" ELSE IF t = 1 THEN "WORD"
  ELSE IF t = 2 THEN "PUNCTUATION" ELSE IF t = 3 THEN "WHITESPACE"
  ELSE "UNKNOWN"
_SENTENCE_TYPES(t) ==
  IF t = 1 THEN "NO_START" ELSE IF t = 2 THEN "PROBABLE"
  ELSE IF t = 3 THEN "POSSIBLE" ELSE "NONE"

\* the dict built by analyze's inner loop: a later pair replaces an earlier
\* one that has the same key
DictOf(a) ==
  [k \in {a[j][1] : j \in 1..Len(a)} |->
     LET last == CHOOSE j \in 1..Len(a) :
                   a[j][1] = k /\ \A m \in (j + 1)..Len(a) : a[m][1] # k
     IN a[last][2]]

(* ------------------------------ queries -------------------------------- *)
Spell(i, word, r) ==
  /\ phase[i] = "open"
  /\ IF check_handle(i) # "none"
     THEN Raise(i, "spell", word, <<>>, check_handle(i), TerminatedMsg)
     ELSE Return(i, "spell", word, <<Ev("voikko_spell", handle[i], 0, r)>>,
                 "bool", <<IF r = 1 THEN "True" ELSE "False">>, 0)
  /\ UNCHANGED <<phase, handle, sessions, frees, nextH, heap>>

\* (variant: the array is released before it is read)
Suggest_free_first(i, word, ptr) ==
  /\ phase[i] = "open"
  /\ HasFreeBuf
  /\ IF check_handle(i) # "none"
     THEN Raise(i, "suggest", word, <<>>, check_handle(i), TerminatedMsg)
     ELSE IF ptr.null
     THEN Return(i, "suggest", word, <<Ev("voikko_suggest", handle[i], 0, 0)>>,
                 "list", <<>>, 0)
     ELSE Return(i, "suggest", word,
                 <<EvItems("voikko_suggest", handle[i], NewBuf, ptr.items),
                   Ev("voikko_free_str_array", NoH, NewBuf, 0),
                   Ev("read", NoH, NewBuf, 0)>>,
                 "list", ReadEntries(Garbage), 0)
  /\ UNCHANGED <<phase, handle, sessions, frees, nextH, heap>>

\* (variant: a null result is reported as a failure)
Suggest_null_raises(i, word, ptr) ==
  /\ phase[i] = "open"
  /\ HasFreeBuf
  /\ IF check_handle(i) # "none"
     THEN Raise(i, "suggest", word, <<>>, check_handle(i), TerminatedMsg)
     ELSE IF ptr.null
     THEN Raise(i, "suggest", word, <<Ev("voikko_suggest", handle[i], 0, 0)>>,
                "RuntimeError", <<"no suggestions">>)
     ELSE Return(i, "suggest", word,
                 <<EvItems("voikko_suggest", handle[i], NewBuf, ptr.items),
                   Ev("read", NoH, NewBuf, 0),
                   Ev("voikko_free_str_array", NoH, NewBuf, 0)>>,
                 "list", read_null_terminated(ptr), 0)
  /\ UNCHANGED <<phase, handle, sessions, frees, nextH, heap>>

Suggest(i, word, ptr) ==
  /\ phase[i] = "open"
  /\ HasFreeBuf
  /\ IF check_handle(i) # "none"
     THEN Raise(i, "suggest", word, <<>>, check_handle(i), TerminatedMsg)
     ELSE IF ptr.null
     THEN Return(i, "suggest", word, <<Ev("voikko_suggest", handle[i], 0, 0)>>,
                 "list", <<>>, 0)
     ELSE Return(i, "suggest", word,
                 <<EvItems("voikko_suggest", handle[i], NewBuf, ptr.items),
                   Ev("read", NoH, NewBuf, 0),
                   Ev("voikko_free_str_array", NoH, NewBuf, 0)>>,
                 "list", read_null_terminated(ptr), 0)
  /\ UNCHANGED <<phase, handle, sessions, frees, nextH, heap>>

Analyze(i, word, arr) ==
  /\ phase[i] = "open"
  /\ HasFreeBuf
  /\ IF check_handle(i) # "none"
     THEN Raise(i, "analyze", word, <<>>, check_handle(i), TerminatedMsg)
     ELSE LET b == IF Len(arr) = 0 THEN 0 ELSE NewBuf
          IN Return(i, "analyze", word,
                    <<Ev("voikko_analyze", handle[i], b, Len(arr))>>
                    \o (IF Len(arr) = 0 THEN <<>> ELSE <<Ev("read", NoH, b, 0)>>)
                    \o <<Ev("voikko_free_analyses", NoH, b, 0)>>,
                    "list", [k \in 1..Len(arr) |-> DictOf(arr[k])], 0)
  /\ UNCHANGED <<phase, handle, sessions, frees, nextH, heap>>

Hyphenate(i, word, ptr) ==
  /\ phase[i] = "open"
  /\ HasFreeBuf
  /\ IF check_handle(i) # "none"
     THEN Raise(i, "hyphenate", word, <<>>, check_handle(i), TerminatedMsg)
     ELSE IF ptr.null
     THEN Return(i, "hyphenate", word,
                 <<Ev("voikko_insert_hyphens", handle[i], 0, 0)>>,
                 "str", word, 0)
     ELSE Return(i, "hyphenate", word,
                 <<Ev("voikko_insert_hyphens", handle[i], NewBuf, 0),
                   Ev("read", NoH, NewBuf, 0),
                   Ev("voikko_free_str", NoH, NewBuf, 0)>>,
                 "str", Dec(ptr.items), 0)
  /\ UNCHANGED <<phase, handle, sessions, frees, nextH, heap>>

\* (variant: the fallback is as long as the encoded word)
GetHyphenationPattern_byte_len(i, word, ptr) ==
  /\ phase[i] = "open"
  /\ HasFreeBuf
  /\ IF check_handle(i) # "none"
     THEN Raise(i, "get_hyphenation_pattern", word, <<>>, check_handle(i),
                TerminatedMsg)
     ELSE IF ptr.null
     THEN Return(i, "get_hyphenation_pattern", word,
                 <<Ev("voikko_hyphenate", handle[i], 0, 0)>>,
                 "str", [k \in 1..Len(Enc(word)) |-> " "], 0)
     ELSE Return(i, "get_hyphenation_pattern", word,
                 <<Ev("voikko_hyphenate", handle[i], NewBuf, 0),
                   Ev("read", NoH, NewBuf, 0),
                   Ev("voikko_free_str", NoH, NewBuf, 0)>>,
                 "str", Dec(ptr.items), 0)
  /\ UNCHANGED <<phase, handle, sessions, frees, nextH, heap>>

GetHyphenationPattern(i, word, ptr) ==
  /\ phase[i] = "open"
  /\ HasFreeBuf
  /\ IF check_handle(i) # "none"
     THEN Raise(i, "get_hyphenation_pattern", word, <<>>, check_handle(i),
                TerminatedMsg)
     ELSE IF ptr.null
     THEN Return(i, "get_hyphenation_pattern", word,
                 <<Ev("voikko_hyphenate", handle[i], 0, 0)>>,
                 "str", [k \in 1..Len(word) |-> " "], 0)
     ELSE Return(i, "get_hyphenation_pattern", word,
                 <<Ev("voikko_hyphenate", handle[i], NewBuf, 0),
                   Ev("read", NoH, NewBuf, 0),
                   Ev("voikko_free_str", NoH, NewBuf, 0)>>,
                 "str", Dec(ptr.items), 0)
  /\ UNCHANGED <<phase, handle, sessions, frees, nextH, heap>>

GrammarErrorOf(e) ==
  [error_code |-> e.error_code, start_pos |-> e.start_pos,
   error_len |-> e.error_len,
   short_description |->
     IF Truthy(e.short_description) THEN e.short_description ELSE "",
   suggestions |->
     IF e.suggestions.null THEN <<>> ELSE read_null_terminated(e.suggestions)]

GrammarErrors(i, text, arr) ==
  /\ phase[i] = "open"
  /\ HasFreeBuf
  /\ IF check_handle(i) # "none"
     THEN Raise(i, "grammar_errors", text, <<>>, check_handle(i), TerminatedMsg)
     ELSE LET b == IF Len(arr) = 0 THEN 0 ELSE NewBuf
          IN Return(i, "grammar_errors", text,
                    <<Ev("voikko_grammar_errors", handle[i], b, Len(arr))>>
                    \o (IF Len(arr) = 0 THEN <<>> ELSE <<Ev("read", NoH, b, 0)>>)
                    \o <<Ev("voikko_free_grammar_errors", NoH, b, 0)>>,
                    "list", [k \in 1..Len(arr) |-> GrammarErrorOf(arr[k])], 0)
  /\ UNCHANGED <<phase, handle, sessions, frees, nextH, heap>>

TokenOf(t) ==
  [type |-> _TOKEN_TYPES(t.token_type),
   text |-> IF Truthy(t.text) THEN t.text ELSE "",
   position |-> t.position]

Tokens(i, text, arr) ==
  /\ phase[i] = "open"
  /\ HasFreeBuf
  /\ IF check_handle(i) # "none"
     THEN Raise(i, "tokens", text, <<>>, check_handle(i), TerminatedMsg)
     ELSE LET b == IF Len(arr) = 0 THEN 0 ELSE NewBuf
          IN Return(i, "tokens", text,
                    <<Ev("voikko_tokens", handle[i], b, Len(arr))>>
                    \o (IF Len(arr) = 0 THEN <<>> ELSE <<Ev("read", NoH, b, 0)>>)
                    \o <<Ev("voikko_free_tokens", NoH, b, 0)>>,
                    "list", [k \in 1..Len(arr) |-> TokenOf(arr[k])], 0)
  /\ UNCHANGED <<phase, handle, sessions, frees, nextH, heap>>

SentenceOf(s) ==
  [type |-> _SENTENCE_TYPES(s.sentence_type), length |-> s.sentence_len]

Sentences(i, text, arr) ==
  /\ phase[i] = "open"
  /\ HasFreeBuf
  /\ IF check_handle(i) # "none"
     THEN Raise(i, "sentences", text, <<>>, check_handle(i), TerminatedMsg)
     ELSE LET b == IF Len(arr) = 0 THEN 0 ELSE NewBuf
          IN Return(i, "sentences", text,
                    <<Ev("voikko_sentences", handle[i], b, Len(arr))>>
                    \o (IF Len(arr) = 0 THEN <<>> ELSE <<Ev("read", NoH, b, 0)>>)
                    \o <<Ev("voikko_free_sentences", NoH, b, 0)>>,
                    "list", [k \in 1..Len(arr) |-> SentenceOf(arr[k])], 0)
  /\ UNCHANGED <<phase, handle, sessions, frees, nextH, heap>>

\* (variant: the handle is checked first, as in the queries)
AttributeValues_checked(i, name) ==
  /\ phase[i] = "open"
  /\ LET ptr == NativeAttributeValues(name)
     IN IF check_handle(i) # "none"
        THEN /\ Raise(i, "attribute_values", <<name>>, <<>>, check_handle(i),
                      TerminatedMsg)
             /\ heap' = heap
        ELSE IF ptr.null
        THEN /\ Return(i, "attribute_values", <<name>>,
                       <<EvS("voikko_attribute_values", NoH, 0, 0, name)>>,
                       "None", <<>>, 0)
             /\ heap' = heap
        ELSE /\ Cardinality(Live) + 1 < MaxBufs
             /\ Return(i, "attribute_values", <<name>>,
                       <<EvS("voikko_attribute_values", NoH, NewBuf, 0, name),
                         Ev("read", NoH, NewBuf, 0)>>,
                       "list", read_null_terminated(ptr), 0)
             /\ heap' = [heap EXCEPT ![NewBuf] =
                           [st |-> "live", data |-> ptr.items]]
  /\ UNCHANGED <<phase, handle, sessions, frees, nextH>>

\* attribute_values: no handle check, no release of the native array
AttributeValues(i, name) ==
  /\ phase[i] = "open"
  /\ LET ptr == NativeAttributeValues(name)
     IN IF ptr.null
        THEN /\ Return(i, "attribute_values", <<name>>,
                       <<EvS("voikko_attribute_values", NoH, 0, 0, name)>>,
                       "None", <<>>, 0)
             /\ heap' = heap
        ELSE /\ Cardinality(Live) + 1 < MaxBufs
             /\ Return(i, "attribute_values", <<name>>,
                       <<EvS("voikko_attribute_values", NoH, NewBuf, 0, name),
                         Ev("read", NoH, NewBuf, 0)>>,
                       "list", read_null_terminated(ptr), 0)
             /\ heap' = [heap EXCEPT ![NewBuf] =
                           [st |-> "live", data |-> ptr.items]]
  /\ UNCHANGED <<phase, handle, sessions, frees, nextH>>

(* --------------------------- option setters ---------------------------- *)
\* set_*(v): the native setter is called with self._handle as it is, None
\* (a NULL pointer) included; the call returns nothing and raises nothing
Set(i, name, v) ==
  /\ phase[i] = "open"
  /\ Return(i, name, <<>>, <<Ev(name, handle[i], 0, v)>>, "none", <<>>, 0)
  /\ UNCHANGED <<phase, handle, sessions, frees, nextH, heap>>

Next ==
  \/ \E i \in Inst, flat \in BOOLEAN, v5 \in BOOLEAN : InitNotFound(i, flat, v5)
  \/ \E i \in Inst, flat \in BOOLEAN, v5 \in BOOLEAN, a1 \in AcSizes,
        a2 \in AcSizes, m \in ErrMsgs : InitFail(i, flat, v5, a1, a2, m)
  \/ \E i \in Inst, flat \in BOOLEAN, v5 \in BOOLEAN, a1 \in AcSizes,
        a2 \in AcSizes : InitOk(i, flat, v5, a1, a2)
  \/ \E i \in Inst : Terminate(i)
  \/ \E i \in Inst : Exit(i)
  \/ \E i \in Inst : Del(i)
  \/ \E i \in Inst, w \in Words, r \in 0..1 : Spell(i, w, r)
  \/ \E i \in Inst, w \in Words, p \in StrPtrs : Suggest(i, w, p)
  \/ \E i \in Inst, w \in Words, a \in AnalysisArrays : Analyze(i, w, a)
  \/ \E i \in Inst, w \in Words, p \in TextPtrs : Hyphenate(i, w, p)
  \/ \E i \in Inst, w \in Words : \E p \in NativePatterns(Enc(w)) :
        GetHyphenationPattern(i, w, p)
  \/ \E i \in Inst, w \in Words, a \in GrammarArrays : GrammarErrors(i, w, a)
  \/ \E i \in Inst, w \in Words, a \in TokenArrays : Tokens(i, w, a)
  \/ \E i \in Inst, w \in Words, a \in SentenceArrays : Sentences(i, w, a)
  \/ \E i \in Inst, n \in AttrNames : AttributeValues(i, n)
  \/ \E i \in Inst, n \in SetterOps, v \in SetterValues : Set(i, n, v)

Spec == Init /\ [][Next]_vars

(* ------------------- threads sharing one object ------------------------ *)
\* Two threads call spell() and terminate() on the same object.  A method
\* is no longer one step: the interpreter can switch threads between the
\* test of self._handle, the native call (which reads self._handle again
\* and runs without the interpreter lock) and the assignment that clears
\* the handle.  With serial the callers take a lock around each call, so
\* a method starts only when no other thread is inside one.
Shared == 1

MayEnter(t) ==
  /\ thr[t].pc = "idle"
  /\ phase[Shared] = "open"
  /\ serial => \A u \in Threads \ {t} : thr[u].pc = "idle"

\* a method of the shared object completes in thread t
Done(t, op, arg, cs, exc, kind, data) ==
  /\ thr' = [thr EXCEPT ![t] = Idle]
  /\ calls' = cs
  /\ outcome' = [inst |-> Shared, op |-> op, arg |-> arg, exc |-> exc,
                 kind |-> kind, data |-> data, view |-> 0]

\* the shared object is constructed before the threads use it
T_Open(flat, v5, acFlat, acV5) ==
  /\ \A t \in Threads : thr[t].pc = "idle"
  /\ InitOk(Shared, flat, v5, acFlat, acV5)

\* spell(): self._check_handle()
T_SpellCheck(t, word) ==
  /\ MayEnter(t)
  /\ IF check_handle(Shared) # "none"
     THEN Done(t, "spell", word, <<>>, check_handle(Shared), "exception",
               TerminatedMsg)
     ELSE /\ thr' = [thr EXCEPT ![t] = [pc |-> "spell_call", word |-> word]]
          /\ UNCHANGED <<calls, outcome>>
  /\ UNCHANGED <<phase, handle, sessions, frees, nextH, heap, serial>>

\* spell(): return _lib.voikko_spell(self._handle, _enc(word)) == 1
T_SpellCall(t, r) ==
  /\ thr[t].pc = "spell_call"
  /\ Done(t, "spell", thr[t].word,
          <<Ev("voikko_spell", handle[Shared], 0, r)>>, "none", "bool",
          <<IF r = 1 THEN "True" ELSE "False">>)
  /\ UNCHANGED <<phase, handle, sessions, frees, nextH, heap, serial>>

\* terminate(): if hasattr(self, "_handle") and self._handle
T_TermCheck(t) ==
  /\ MayEnter(t)
  /\ IF handle[Shared] # NoAttr /\ handle[Shared] # None
     THEN /\ thr' = [thr EXCEPT ![t] = [pc |-> "term_free", word |-> <<>>]]
          /\ UNCHANGED <<calls, outcome>>
     ELSE Done(t, "terminate", <<>>, <<>>, "none", "none", <<>>)
  /\ UNCHANGED <<phase, handle, sessions, frees, nextH, heap, serial>>

\* terminate(): _lib.voikko_free(self._handle)
T_TermFree(t) ==
  /\ thr[t].pc = "term_free"
  /\ thr' = [thr EXCEPT ![t] = [pc |-> "term_clear", word |-> <<>>]]
  /\ calls' = <<Ev("voikko_free", handle[Shared], 0, 0)>>
  /\ IF handle[Shared] = None
     THEN UNCHANGED <<frees, sessions>>
     ELSE /\ frees' = [frees EXCEPT ![handle[Shared]] = @ + 1]
          /\ sessions' = sessions \ {handle[Shared]}
  /\ UNCHANGED <<phase, handle, nextH, heap, outcome, serial>>

\* (variant: the handle is not cleared after the free)
T_TermClear_keeps_handle(t) ==
  /\ thr[t].pc = "term_clear"
  /\ Done(t, "terminate", <<>>, <<>>, "none", "none", <<>>)
  /\ UNCHANGED <<phase, handle, sessions, frees, nextH, heap, serial>>

\* terminate(): self._handle = None
T_TermClear(t) ==
  /\ thr[t].pc = "term_clear"
  /\ handle' = [handle EXCEPT ![Shared] = None]
  /\ Done(t, "terminate", <<>>, <<>>, "none", "none", <<>>)
  /\ UNCHANGED <<phase, sessions, frees, nextH, heap, serial>>

InitThreads == Fresh /\ serial \in BOOLEAN

NextThreads ==
  \/ \E flat \in BOOLEAN, v5 \in BOOLEAN, a1 \in AcSizes, a2 \in AcSizes :
        T_Open(flat, v5, a1, a2)
  \/ \E t \in Threads, w \in Words : T_SpellCheck(t, w)
  \/ \E t \in Threads, r \in 0..1 : T_SpellCall(t, r)
  \/ \E t \in Threads : T_TermCheck(t)
  \/ \E t \in Threads : T_TermFree(t)
  \/ \E t \in Threads : T_TermClear(t)

SpecThreads == InitThreads /\ [][NextThreads]_vars

(* ------------------------------ properties ----------------------------- *)
FreeFns == {"voikko_free_str", "voikko_free_str_array", "voikko_free_analyses",
            "voikko_free_grammar_errors", "voikko_free_tokens",
            "voikko_free_sentences"}
\* the release function paired with a result-returning native function
PairedFree(fn) ==
  IF fn \in {"voikko_suggest", "voikko_attribute_values"}
    THEN "voikko_free_str_array"
  ELSE IF fn = "voikko_analyze" THEN "voikko_free_analyses"
  ELSE IF fn = "voikko_grammar_errors" THEN "voikko_free_grammar_errors"
  ELSE IF fn = "voikko_tokens" THEN "voikko_free_tokens"
  ELSE IF fn = "voikko_sentences" THEN "voikko_free_sentences"
  ELSE "voikko_free_str"
ResultFns == {"voikko_suggest", "voikko_attribute_values", "voikko_analyze",
              "voikko_grammar_errors", "voikko_tokens", "voikko_sentences",
              "voikko_insert_hyphens", "voikko_hyphenate"}
CountedOps == {"analyze", "grammar_errors", "tokens", "sentences"}
\* the last operation ran on a terminated object
OnTerminated == outcome.inst \in Inst /\ handle[outcome.inst] = None
\* the last operation ran on a live session: it passed a handle
RanOnLive == outcome.inst \in Inst /\ calls # <<>> /\ calls[1].h >= 1
\* the session the last operation ran on is still there for the object
StillUsable == /\ handle[outcome.inst] = calls[1].h
               /\ calls[1].h \in sessions

\* C1: after terminate(), every later operation that uses the handle (the
\* eight queries and the 17 setters) raises an error.
C1_UseAfterCloseRaises ==
  (OnTerminated /\ outcome.op \in QueryOps \cup SetterOps)
    => outcome.exc # "none"

\* C2: a query made after terminate() raises RuntimeError before any native
\* function is invoked and leaves the object (handle = None) unchanged.
C2_QueryAfterTerminate ==
  [][\A i \in Inst :
       (handle[i] = None /\ outcome'.inst = i /\ outcome'.op \in QueryOps)
         => /\ outcome'.exc = "RuntimeError"
            /\ calls' = <<>>
            /\ handle' = handle
            /\ sessions' = sessions /\ frees' = frees /\ heap' = heap]_vars
C2_Witness ==
  OnTerminated /\ outcome.op = "analyze" /\ outcome.exc = "RuntimeError"

\* C3: closing is idempotent: of any sequence of terminate(), __exit__() and
\* __del__() on an opened object the first calls voikko_free once on its
\* handle, every later one makes no native call and raises nothing.
C3_CloseOnce ==
  /\ [](\A h \in 1..NumInst :
          /\ frees[h] <= 1
          /\ (h < nextH /\ h \notin sessions) => frees[h] = 1
          /\ h \in sessions <=> \E i \in Inst : handle[i] = h)
  /\ [][\A i \in Inst :
          (phase[i] = "open" /\ outcome'.inst = i /\ outcome'.op \in CloseOps)
            => /\ outcome'.exc = "none"
               /\ handle'[i] = None
               /\ IF handle[i] = None
                  THEN calls' = <<>> /\ frees' = frees
                  ELSE /\ calls' = <<Ev("voikko_free", handle[i], 0, 0)>>
                       /\ frees'[handle[i]] = 1]_vars
C3_Witness ==
  /\ OnTerminated /\ outcome.op = "__del__" /\ calls = <<>>
  /\ \E h \in 1..NumInst : frees[h] = 1 /\ h \notin sessions

C5_EveryResultReleased ==
  /\ Live = {}
  /\ \A k \in 1..Len(calls) :
       (calls[k].fn \in ResultFns /\ calls[k].buf # 0)
         => Cardinality({m \in 1..Len(calls) :
                           /\ calls[m].fn = PairedFree(calls[k].fn)
                           /\ calls[m].buf = calls[k].buf}) = 1

\* C6: the reads of a native result buffer all come before its release,
\* and the value handed to the caller is a copy that later operations on
\* the session do not change.
C6_ReadBeforeFree ==
  /\ [](\A j \in 1..Len(calls), k \in 1..Len(calls) :
          (calls[j].fn \in FreeFns /\ calls[k].fn = "read"
             /\ calls[j].buf = calls[k].buf) => k < j)
  /\ [](outcome.view = 0 /\ Observed(outcome) = outcome.data)
  /\ [][outcome.data =
          (IF outcome.view = 0 THEN outcome.data
           ELSE heap'[outcome.view].data)]_vars
C6_Witness ==
  /\ outcome.op = "suggest" /\ outcome.data = <<"a", "b">>
  /\ Len(calls) = 3 /\ calls[2].fn = "read"
  /\ calls[3].fn = "voikko_free_str_array"

\* C7: on a live session a lookup miss is a normal result: suggest gives []
\* for a null or empty native array, analyze, grammar_errors, tokens and
\* sentences give [] for a count of 0 (grammar_errors on empty text
\* included); nothing is raised and the session stays usable.
C7_MissIsNormal ==
  (RanOnLive /\ outcome.op \in QueryOps) =>
    /\ StillUsable
    /\ (outcome.op = "suggest" /\ (calls[1].buf = 0 \/ calls[1].n = 0))
         => outcome.exc = "none" /\ outcome.kind = "list" /\ outcome.data = <<>>
    /\ (outcome.op \in CountedOps /\ calls[1].n = 0)
         => outcome.exc = "none" /\ outcome.kind = "list" /\ outcome.data = <<>>
C7_Witness ==
  /\ RanOnLive /\ outcome.op = "grammar_errors" /\ outcome.arg = <<>>
  /\ calls[1].n = 0 /\ outcome.data = <<>> /\ outcome.exc = "none"

\* C8: attribute_values(name) does not depend on the handle: live or
\* terminated it gives the same result, raises nothing, passes no handle
\* and changes none, and returns None exactly when the native call
\* returns a null pointer, otherwise the list of values.
C8_AttributeValuesNoHandle ==
  /\ [](outcome.op = "attribute_values"
          => /\ outcome.exc = "none"
             /\ \A k \in 1..Len(calls) : calls[k].h = NoH
             /\ calls[1].s = outcome.arg[1]
             /\ (outcome.kind = "None") <=> (calls[1].buf = 0)
             /\ (calls[1].buf = 0)
                  <=> NativeAttributeValues(outcome.arg[1]).null
             /\ outcome.kind # "None"
                  => /\ outcome.kind = "list"
                     /\ outcome.data = NativeAttributeValues(outcome.arg[1]).items)
  /\ [][outcome'.op = "attribute_values"
          => handle' = handle /\ sessions' = sessions /\ frees' = frees]_vars
C8_Witness ==
  /\ OnTerminated /\ outcome.op = "attribute_values"
  /\ outcome.data = <<"a", "b">>

\* C9: two objects are independent: an operation on one passes only that
\* object's handle to native code, leaves the other object's handle and
\* native session as they are, and an operation on an object whose own
\* session is live never raises because of the other.
C9_InstancesIndependent ==
  /\ [][\A i \in Inst :
          outcome'.inst = i
            => /\ \A j \in Inst \ {i} :
                    /\ handle'[j] = handle[j]
                    /\ handle[j] \in sessions => handle[j] \in sessions'
               /\ \A k \in 1..Len(calls') :
                    calls'[k].fn # "voikko_new"
                      => calls'[k].h \in {handle[i], NoH}]_vars
  /\ [](\A i \in Inst :
          (outcome.inst = i /\ outcome.op \in QueryOps \cup SetterOps
             /\ handle[i] \in sessions) => outcome.exc = "none")
C9_Witness ==
  /\ outcome.op = "spell" /\ outcome.exc = "none" /\ RanOnLive
  /\ \E j \in Inst \ {outcome.inst} : phase[j] = "open" /\ handle[j] = None

\* C10: on a live session get_hyphenation_pattern(word) has exactly
\* len(word) characters, also when the native call returns a null pointer
\* and the result is len(word) spaces.
C10_PatternLength ==
  (RanOnLive /\ outcome.op = "get_hyphenation_pattern")
    => /\ outcome.exc = "none"
       /\ Len(outcome.data) = Len(outcome.arg)
       /\ calls[1].buf = 0 => \A k \in 1..Len(outcome.data) : outcome.data[k] = " "
C10_Witness ==
  /\ RanOnLive /\ outcome.op = "get_hyphenation_pattern"
  /\ calls[1].buf = 0 /\ outcome.arg = <<"ae">> /\ outcome.data = <<" ">>

\* C11: the constructor uses {dict_path}/mor.vfst if it exists (also when
\* the V5 file exists too), else {dict_path}/5/mor-standard/mor.vfst if
\* that exists, else raises FileNotFoundError without a native call;
\* autocorr.vfst is looked up only next to the chosen mor.vfst, and its
\* bytes are passed to voikko_new exactly when the file exists there,
\* otherwise a null pointer with length 0.
C11_LayoutResolution ==
  outcome.op = "__init__" =>
    LET a == outcome.arg
        size == IF a.flat THEN a.acFlat ELSE a.acV5
    IN IF ~a.flat /\ ~a.v5
       THEN outcome.exc = "FileNotFoundError" /\ calls = <<>>
       ELSE /\ outcome.exc # "FileNotFoundError"
            /\ calls[1].fn = "voikko_new"
            /\ calls[1].mor = (IF a.flat THEN FlatMor ELSE V5Mor)
            /\ IF size = -1
               THEN calls[1].n = -1 /\ calls[1].acdir = ""
               ELSE /\ calls[1].n = size
                    /\ calls[1].acdir = (IF a.flat THEN "." ELSE "5/mor-standard")

\* C12: suggest(word) returns exactly the strings of the native
\* NULL-terminated array up to its first NULL entry, in the same order,
\* none added, dropped, reordered or deduplicated; hence it is never
\* longer than the native array.
C12_SuggestExact ==
  (RanOnLive /\ outcome.op = "suggest" /\ outcome.exc = "none"
     /\ calls[1].buf # 0)
    => /\ outcome.data = calls[1].items
       /\ Len(outcome.data) <= Len(calls[1].items)

\* no native function, voikko_free included, is called with a handle
\* value that was already passed to voikko_free
NoFreedHandleUse ==
  /\ \A h \in 1..NumInst : frees[h] <= 1
  /\ \A k \in 1..Len(calls) :
       (calls[k].fn \notin {"voikko_free", "voikko_new"} /\ calls[k].h >= 1)
         => frees[calls[k].h] = 0

\* C13 (as stated): under arbitrary interleaving of two threads that call
\* methods of the same object with no external lock, no native function is
\* ever called with a handle already passed to voikko_free.
C13_NoFreedHandleUse == NoFreedHandleUse

\* C13 (amended): when the calls on the same object are serialized by an
\* external lock, no native function is ever called with a handle already
\* passed to voikko_free.
C13_SerializedNoFreedHandleUse == serial => NoFreedHandleUse
C13_Witness ==
  /\ serial
  /\ \E h \in 1..NumInst : frees[h] = 1
  /\ handle[Shared] = None
  /\ outcome.op = "spell" /\ outcome.exc = "RuntimeError"
  /\ \A t \in Threads : thr[t].pc = "idle"
====
